---- MODULE Spec2Model ----
(***************************************************************************)
(* Model of fix_timezone.py: the TimezoneFixer class and main().           *)
(*                                                                         *)
(* The program talks to PostgreSQL through one psycopg2 connection opened  *)
(* with autocommit = False (line 53), so the database is modelled with the *)
(* state that decides what the program and other sessions observe:         *)
(*   committed  the table srs_configs as every other session sees it;      *)
(*   txWrites   the rows this connection's open transaction has updated    *)
(*              (not yet committed, and row-locked against other writers); *)
(*   tx         the transaction status of the connection;                  *)
(*   connection the psycopg2 connection object's state.                    *)
(* A statement that fails on the server leaves the transaction aborted:    *)
(* every later statement on the connection raises until a rollback.  A     *)
(* lost server connection marks the connection object closed, after which  *)
(* connection.cursor() itself raises.  connection.close() without a commit *)
(* discards the open transaction.                                          *)
(***************************************************************************)
EXTENDS Integers, Sequences, FiniteSets, TLC

\* ------------------------------------------------------------------ bounds
\* Number of successive fix_all_timezones calls the idempotence driver makes.
MaxCalls == 2
\* Number of row identifiers the table srs_configs may hold.
MaxRows == 2
\* Number of statements another database session may commit during the run.
MaxExt == 2

Ids == 1..MaxRows

\* ------------------------------------------------------------- the mapping
\* (A mapping whose value for US/Central is itself a legacy key.)
TIMEZONE_MAPPING_chained ==
       "US/Central" :> "Canada/Yukon"
    @@ "US/Eastern" :> "America/New_York"
    @@ "US/Mountain" :> "America/Denver"
    @@ "US/Pacific" :> "America/Los_Angeles"
    @@ "US/Alaska" :> "America/Anchorage"
    @@ "US/Arizona" :> "America/Phoenix"
    @@ "US/East-Indiana" :> "America/Indiana/Indianapolis"
    @@ "US/Hawaii" :> "Pacific/Honolulu"
    @@ "Canada/Atlantic" :> "America/Halifax"
    @@ "Canada/Central" :> "America/Winnipeg"
    @@ "Canada/Eastern" :> "America/Toronto"
    @@ "Canada/Mountain" :> "America/Edmonton"
    @@ "Canada/Newfoundland" :> "America/St_Johns"
    @@ "Canada/Pacific" :> "America/Vancouver"
    @@ "Canada/Saskatchewan" :> "America/Regina"
    @@ "Canada/Yukon" :> "America/Whitehorse"

\* TIMEZONE_MAPPING, lines 25-42.
TIMEZONE_MAPPING ==
       "US/Central" :> "America/Chicago"
    @@ "US/Eastern" :> "America/New_York"
    @@ "US/Mountain" :> "America/Denver"
    @@ "US/Pacific" :> "America/Los_Angeles"
    @@ "US/Alaska" :> "America/Anchorage"
    @@ "US/Arizona" :> "America/Phoenix"
    @@ "US/East-Indiana" :> "America/Indiana/Indianapolis"
    @@ "US/Hawaii" :> "Pacific/Honolulu"
    @@ "Canada/Atlantic" :> "America/Halifax"
    @@ "Canada/Central" :> "America/Winnipeg"
    @@ "Canada/Eastern" :> "America/Toronto"
    @@ "Canada/Mountain" :> "America/Edmonton"
    @@ "Canada/Newfoundland" :> "America/St_Johns"
    @@ "Canada/Pacific" :> "America/Vancouver"
    @@ "Canada/Saskatchewan" :> "America/Regina"
    @@ "Canada/Yukon" :> "America/Whitehorse"

\* The @timezone_mapping literal of the generated Elixir module, lines 178-195.
\* The template spells it out by hand, independently of TIMEZONE_MAPPING.
\* (First: the literal with the values of its last two entries exchanged.)
mapping_content_swapped ==
       "US/Central" :> "America/Chicago"
    @@ "US/Eastern" :> "America/New_York"
    @@ "US/Mountain" :> "America/Denver"
    @@ "US/Pacific" :> "America/Los_Angeles"
    @@ "US/Alaska" :> "America/Anchorage"
    @@ "US/Arizona" :> "America/Phoenix"
    @@ "US/East-Indiana" :> "America/Indiana/Indianapolis"
    @@ "US/Hawaii" :> "Pacific/Honolulu"
    @@ "Canada/Atlantic" :> "America/Halifax"
    @@ "Canada/Central" :> "America/Winnipeg"
    @@ "Canada/Eastern" :> "America/Toronto"
    @@ "Canada/Mountain" :> "America/Edmonton"
    @@ "Canada/Newfoundland" :> "America/St_Johns"
    @@ "Canada/Pacific" :> "America/Vancouver"
    @@ "Canada/Saskatchewan" :> "America/Whitehorse"
    @@ "Canada/Yukon" :> "America/Regina"

mapping_content ==
       "US/Central" :> "America/Chicago"
    @@ "US/Eastern" :> "America/New_York"
    @@ "US/Mountain" :> "America/Denver"
    @@ "US/Pacific" :> "America/Los_Angeles"
    @@ "US/Alaska" :> "America/Anchorage"
    @@ "US/Arizona" :> "America/Phoenix"
    @@ "US/East-Indiana" :> "America/Indiana/Indianapolis"
    @@ "US/Hawaii" :> "Pacific/Honolulu"
    @@ "Canada/Atlantic" :> "America/Halifax"
    @@ "Canada/Central" :> "America/Winnipeg"
    @@ "Canada/Eastern" :> "America/Toronto"
    @@ "Canada/Mountain" :> "America/Edmonton"
    @@ "Canada/Newfoundland" :> "America/St_Johns"
    @@ "Canada/Pacific" :> "America/Vancouver"
    @@ "Canada/Saskatchewan" :> "America/Regina"
    @@ "Canada/Yukon" :> "America/Whitehorse"

\* normalize_timezone of the generated module, lines 197-199:
\* Map.get(@timezone_mapping, timezone, timezone), on the file's contents m.
normalize_timezone(m, timezone) ==
    IF timezone \in DOMAIN m THEN m[timezone] ELSE timezone

\* ------------------------------------------------------------ the database
NoRow == "<no row>"
NoWrite == "<no write>"
NoRead == "<not read>"

\* Timezone values a row of srs_configs is drawn from: two legacy keys, two
\* canonical names (one of them the image of a key) and a name unknown to the
\* mapping.
TableNames == {"US/Central", "Canada/Yukon", "America/Chicago", "US/Nonexistent"}

VARIABLES
    pc,             \* position of the run
    connection,     \* self.connection: "None", "open", "broken" (closed by a lost server), "closed"
    tx,             \* transaction status of the connection: "idle", "active", "aborted"
    committed,      \* srs_configs as committed: Ids -> timezone or NoRow
    txWrites,       \* uncommitted updates of the connection's transaction: Ids -> timezone or NoWrite
    legacyOk,       \* whether the server's timezone resolver accepts legacy names such as US/Central
    invalid_users,  \* fix_all_timezones: the scan's result, a sequence of <<id, timezone>>
    idx,            \* fix_all_timezones: position of the for loop in invalid_users
    fixed_count,    \* fix_all_timezones: fixed_count
    failed_count,   \* fix_all_timezones: failed_count
    reports,        \* the dictionaries fix_all_timezones has returned, in order
    probes,         \* what test_timezone_query has returned, in order: [tz, ok]
    log,            \* one record per fix_timezone return (the lines it prints)
    artifact,       \* timezone_mapping.ex: <<>> while absent, else <<the table written>>
    exitCode,       \* -1 while running, else the process exit status
    pending,        \* exit status chosen before the finally block runs
    closeCalls,     \* number of connection.close() calls
    uncaught,       \* the component whose exception reached main's except block, or "none"
    issued,         \* kinds of SQL statement sent so far
    extUsed,        \* statements committed by other sessions so far
    dbErr,          \* some statement of the run raised a psycopg2 error
    faultInjected   \* some statement failed for a reason outside the program (timeout, lost server)

vars == <<pc, connection, tx, committed, txWrites, legacyOk, invalid_users, idx,
          fixed_count, failed_count, reports, probes, log, artifact, exitCode,
          pending, closeCalls, uncaught, issued, extUsed, dbErr, faultInjected>>

NoWrites == [i \in Ids |-> NoWrite]

\* What a SELECT on this connection reads for row i (READ COMMITTED: the
\* transaction's own writes, else the committed row).
View(i) == IF txWrites[i] # NoWrite THEN txWrites[i] ELSE committed[i]

\* All orderings of a finite set, as sequences without repetition.
Perms(S) ==
    {s \in [1..Cardinality(S) -> S] : \A a, b \in 1..Cardinality(S) : a # b => s[a] # s[b]}

\* The outcomes cursor.execute can have for a statement whose outcome on a
\* healthy transaction is nat ("ok" or "error"): in an aborted transaction the
\* server rejects it; any statement can also fail for an outside reason or find
\* the server gone.
ExecOutcomes(nat) ==
    IF tx = "aborted" THEN {"error", "lost"} ELSE {nat, "error", "lost"}

Expected(nat) == IF tx = "aborted" THEN "error" ELSE nat

\* The effect of a statement with outcome o on the connection; w is the
\* transaction's write set if the statement succeeds.
DbEffect(nat, o, w, kind) ==
    /\ tx' = (CASE o = "ok" -> "active" [] o = "error" -> "aborted" [] OTHER -> "idle")
    /\ connection' = IF o = "lost" THEN "broken" ELSE connection
    /\ txWrites' = (CASE o = "ok" -> w [] o = "error" -> txWrites [] OTHER -> NoWrites)
    /\ dbErr' = (dbErr \/ o # "ok")
    /\ faultInjected' = (faultInjected \/ o # Expected(nat))
    /\ issued' = issued \cup {kind}

DbUntouched == UNCHANGED <<tx, connection, txWrites, dbErr, faultInjected, issued>>

Init ==
    /\ pc = "start"
    /\ connection = "None"
    /\ tx = "idle"
    /\ committed \in [Ids -> TableNames \cup {NoRow}]
    /\ txWrites = NoWrites
    /\ legacyOk \in BOOLEAN
    /\ invalid_users = <<>>
    /\ idx = 0
    /\ fixed_count = 0
    /\ failed_count = 0
    /\ reports = <<>>
    /\ probes = <<>>
    /\ log = <<>>
    /\ artifact = <<>>
    /\ exitCode = -1
    /\ pending = -1
    /\ closeCalls = 0
    /\ uncaught = "none"
    /\ issued = {}
    /\ extUsed = 0
    /\ dbErr = FALSE
    /\ faultInjected = FALSE

\* ---------------------------------------------------------------- connect
\* TimezoneFixer.connect, lines 49-58, and main's exit on failure, lines 219-220.
Connect ==
    /\ pc = "start"
    /\ \E ok \in BOOLEAN :
        IF ok
        THEN /\ connection' = "open"
             /\ pc' = "connected"
             /\ UNCHANGED exitCode
        ELSE /\ connection' = "None"
             /\ pc' = "exited"
             /\ exitCode' = 1
    /\ UNCHANGED <<tx, committed, txWrites, legacyOk, invalid_users, idx, fixed_count,
                   failed_count, reports, probes, log, artifact, pending, closeCalls,
                   uncaught, issued, extUsed, dbErr, faultInjected>>

\* ------------------------------------------------------------------ probes
\* TimezoneFixer.test_timezone_query, lines 143-166, called at position at.
\* The cursor is created outside the try block (line 145); the execute is
\* inside it, and a psycopg2.Error becomes the result False.  The SELECT has
\* no FROM clause, so fetchone() returns a row whenever execute succeeds.
test_timezone_query(at, timezone, next) ==
    /\ pc = at
    /\ IF connection = "broken"
       THEN /\ pc' = "except"
            /\ uncaught' = "probe"
            /\ DbUntouched
            /\ UNCHANGED probes
       ELSE \E o \in ExecOutcomes(IF timezone \in DOMAIN TIMEZONE_MAPPING /\ ~legacyOk
                                  THEN "error" ELSE "ok") :
            /\ DbEffect(IF timezone \in DOMAIN TIMEZONE_MAPPING /\ ~legacyOk
                        THEN "error" ELSE "ok", o, txWrites, "probe")
            /\ probes' = Append(probes, [tz |-> timezone, ok |-> (o = "ok")])
            /\ pc' = next
            /\ UNCHANGED uncaught
    /\ UNCHANGED <<committed, legacyOk, invalid_users, idx, fixed_count, failed_count,
                   reports, log, artifact, exitCode, pending, closeCalls, extUsed>>

\* main, lines 225-226 and 242.
Probe1 == test_timezone_query("connected", "US/Central", "probe2")
Probe2 == test_timezone_query("probe2", "America/Chicago", "fixall")
Probe3 == test_timezone_query("probe3", "America/Chicago", "success")

\* -------------------------------------------------------------------- scan
\* The rows the query of get_invalid_timezones selects, lines 70-77:
\* WHERE timezone IN (the keys of TIMEZONE_MAPPING).
\* (Variant without the WHERE clause: every row present.)
SelectedRows_present ==
    {<<i, View(i)>> : i \in {j \in Ids : View(j) # NoRow}}

SelectedRows ==
    {<<i, View(i)>> : i \in {j \in Ids : View(j) \in DOMAIN TIMEZONE_MAPPING}}

\* fix_all_timezones up to the for loop, lines 120-133, with
\* get_invalid_timezones, lines 66-82, inlined.  Neither function catches
\* anything: an error of cursor() or execute() leaves fix_all_timezones.
Scan ==
    /\ pc = "fixall"
    /\ IF connection = "broken"
       THEN /\ pc' = "except"
            /\ uncaught' = "scan"
            /\ DbUntouched
            /\ UNCHANGED <<invalid_users, idx, fixed_count, failed_count, reports>>
       ELSE \E o \in ExecOutcomes("ok") :
            /\ DbEffect("ok", o, txWrites, "scan")
            /\ IF o # "ok"
               THEN /\ pc' = "except"
                    /\ uncaught' = "scan"
                    /\ UNCHANGED <<invalid_users, idx, fixed_count, failed_count, reports>>
               ELSE /\ UNCHANGED uncaught
                    /\ \E results \in Perms(SelectedRows) :
                        /\ invalid_users' = results
                        /\ IF results = <<>>
                           THEN /\ reports' = Append(reports, [fixed |-> 0, failed |-> 0])
                                /\ pc' = "fixall_done"
                                /\ UNCHANGED <<idx, fixed_count, failed_count>>
                           ELSE /\ idx' = 1
                                /\ fixed_count' = 0
                                /\ failed_count' = 0
                                /\ pc' = "loop"
                                /\ UNCHANGED reports
    /\ UNCHANGED <<committed, legacyOk, probes, log, artifact, exitCode, pending,
                   closeCalls, extUsed>>

\* --------------------------------------------------------------- fix one row
\* The write set after UPDATE srs_configs SET timezone = new WHERE id = i:
\* the row is rewritten if this session sees one, else nothing is updated.
UpdateRow(i, new) ==
    IF View(i) # NoRow THEN [txWrites EXCEPT ![i] = new] ELSE txWrites

\* (Variant of the test below that accepts any row read back.)
Verified_any(result, new_timezone) == result # NoRow

\* The test of line 107 on the value read back (NoRow stands for None).
Verified(result, new_timezone) == result # NoRow /\ result = new_timezone

\* One iteration of the for loop, first half: fix_timezone from its entry to
\* the UPDATE, lines 84-100, and, where fix_timezone returns here, the
\* counting of lines 136-139.
FixUpdate ==
    /\ pc = "loop"
    /\ idx <= Len(invalid_users)
    /\ LET user_id == invalid_users[idx][1]
           old_timezone == invalid_users[idx][2]
       IN IF old_timezone \notin DOMAIN TIMEZONE_MAPPING
          THEN /\ log' = Append(log, [id |-> user_id, old |-> old_timezone, new |-> NoRead,
                                      result |-> "Failed", reason |-> "no mapping",
                                      readback |-> NoRead])
               /\ failed_count' = failed_count + 1
               /\ idx' = idx + 1
               /\ DbUntouched
               /\ UNCHANGED <<pc, uncaught>>
          ELSE IF connection = "broken"
          THEN /\ pc' = "except"
               /\ uncaught' = "fix"
               /\ DbUntouched
               /\ UNCHANGED <<log, failed_count, idx>>
          ELSE \E o \in ExecOutcomes("ok") :
               /\ DbEffect("ok", o, UpdateRow(user_id, TIMEZONE_MAPPING[old_timezone]), "update")
               /\ UNCHANGED uncaught
               /\ IF o = "ok"
                  THEN /\ pc' = "verify"
                       /\ UNCHANGED <<log, failed_count, idx>>
                  ELSE /\ log' = Append(log, [id |-> user_id, old |-> old_timezone,
                                              new |-> TIMEZONE_MAPPING[old_timezone],
                                              result |-> "Failed", reason |-> "database error",
                                              readback |-> NoRead])
                       /\ failed_count' = failed_count + 1
                       /\ idx' = idx + 1
                       /\ UNCHANGED pc
    /\ UNCHANGED <<committed, legacyOk, invalid_users, fixed_count, reports, probes,
                   artifact, exitCode, pending, closeCalls, extUsed>>

\* Second half: the verification read and the comparison, lines 102-118, and
\* the counting of lines 136-139.
FixVerify ==
    /\ pc = "verify"
    /\ LET user_id == invalid_users[idx][1]
           old_timezone == invalid_users[idx][2]
           new_timezone == TIMEZONE_MAPPING[old_timezone]
       IN \E o \in ExecOutcomes("ok") :
            /\ DbEffect("ok", o, txWrites, "verify")
            /\ IF o = "ok" /\ Verified(View(user_id), new_timezone)
               THEN /\ fixed_count' = fixed_count + 1
                    /\ log' = Append(log, [id |-> user_id, old |-> old_timezone,
                                           new |-> new_timezone, result |-> "Fixed",
                                           reason |-> "ok", readback |-> View(user_id)])
                    /\ UNCHANGED failed_count
               ELSE /\ failed_count' = failed_count + 1
                    /\ log' = Append(log, [id |-> user_id, old |-> old_timezone,
                                           new |-> new_timezone, result |-> "Failed",
                                           reason |-> IF o = "ok" THEN "verify mismatch"
                                                      ELSE "database error",
                                           readback |-> IF o = "ok" THEN View(user_id)
                                                        ELSE NoRead])
                    /\ UNCHANGED fixed_count
    /\ idx' = idx + 1
    /\ pc' = "loop"
    /\ UNCHANGED <<committed, legacyOk, invalid_users, reports, probes, artifact,
                   exitCode, pending, closeCalls, uncaught, extUsed>>

\* The end of the for loop and the return of line 141.
FixAllReturn ==
    /\ pc = "loop"
    /\ idx > Len(invalid_users)
    /\ reports' = Append(reports, [fixed |-> fixed_count, failed |-> failed_count])
    /\ pc' = "fixall_done"
    /\ UNCHANGED <<connection, tx, committed, txWrites, legacyOk, invalid_users, idx,
                   fixed_count, failed_count, probes, log, artifact, exitCode, pending,
                   closeCalls, uncaught, issued, extUsed, dbErr, faultInjected>>

\* ---------------------------------------------------------------- artifact
\* main, lines 232-238, with generate_timezone_mapping_file, lines 168-210:
\* open(path, 'w') either truncates and writes the template or raises OSError
\* (missing directory, no permission), which nothing below main catches.
EmitMappingArtifact ==
    /\ pc = "fixall_done"
    /\ \E writable \in BOOLEAN :
        IF writable
        THEN /\ artifact' = <<mapping_content>>
             /\ pc' = "probe3"
             /\ UNCHANGED uncaught
        ELSE /\ pc' = "except"
             /\ uncaught' = "artifact"
             /\ UNCHANGED artifact
    /\ UNCHANGED <<connection, tx, committed, txWrites, legacyOk, invalid_users, idx,
                   fixed_count, failed_count, reports, probes, log, exitCode, pending,
                   closeCalls, issued, extUsed, dbErr, faultInjected>>

\* -------------------------------------------------------------- main's end
\* main, line 244: the try block ends normally.
MainSuccess ==
    /\ pc = "success"
    /\ pending' = 0
    /\ pc' = "finally"
    /\ UNCHANGED <<connection, tx, committed, txWrites, legacyOk, invalid_users, idx,
                   fixed_count, failed_count, reports, probes, log, artifact, exitCode,
                   closeCalls, uncaught, issued, extUsed, dbErr, faultInjected>>

\* (Variant in which the exit skips the finally block.)
MainExcept_returns ==
    /\ pc = "except"
    /\ pending' = 1
    /\ pc' = "exited"
    /\ exitCode' = 1
    /\ UNCHANGED <<connection, tx, committed, txWrites, legacyOk, invalid_users, idx,
                   fixed_count, failed_count, reports, probes, log, artifact,
                   closeCalls, uncaught, issued, extUsed, dbErr, faultInjected>>

\* (Variant in which the handler prints the error without sys.exit(1).)
MainExcept_swallows ==
    /\ pc = "except"
    /\ pending' = 0
    /\ pc' = "finally"
    /\ UNCHANGED <<connection, tx, committed, txWrites, legacyOk, invalid_users, idx,
                   fixed_count, failed_count, reports, probes, log, artifact, exitCode,
                   closeCalls, uncaught, issued, extUsed, dbErr, faultInjected>>

\* main, lines 246-248: except Exception prints the error and calls sys.exit(1);
\* the SystemExit it raises passes through the finally block.
MainExcept ==
    /\ pc = "except"
    /\ pending' = 1
    /\ pc' = "finally"
    /\ UNCHANGED <<connection, tx, committed, txWrites, legacyOk, invalid_users, idx,
                   fixed_count, failed_count, reports, probes, log, artifact, exitCode,
                   closeCalls, uncaught, issued, extUsed, dbErr, faultInjected>>

\* What connection.close() leaves of the transaction's writes in the committed
\* table.  No statement of the program commits, so close() discards them.
CloseCommits(i) == committed[i]

\* main's finally block, line 250, with TimezoneFixer.disconnect, lines 60-64,
\* and the end of the process with the pending exit status.
Disconnect ==
    /\ pc = "finally"
    /\ IF connection # "None"
       THEN /\ connection' = "closed"
            /\ closeCalls' = closeCalls + 1
            /\ committed' = [i \in Ids |-> CloseCommits(i)]
            /\ txWrites' = NoWrites
            /\ tx' = "idle"
       ELSE UNCHANGED <<connection, closeCalls, committed, txWrites, tx>>
    /\ exitCode' = pending
    /\ pc' = "exited"
    /\ UNCHANGED <<legacyOk, invalid_users, idx, fixed_count, failed_count, reports,
                   probes, log, artifact, pending, uncaught, issued, extUsed, dbErr,
                   faultInjected>>

\* ---------------------------------------------------------- other sessions
\* Another session commits a DELETE of a row, or an INSERT or UPDATE that
\* leaves it with a legacy or a canonical name, while the for loop of
\* fix_all_timezones still has that row to update or to verify.  (A write
\* before the scan is a different initial table, and the program never reads
\* a row again once fix_timezone has returned for it.)  A row this
\* connection's open transaction has updated is locked: the other session
\* waits for the transaction's end.
ExternalWrite ==
    /\ pc \in {"loop", "verify"}
    /\ extUsed < MaxExt
    /\ \E i \in {invalid_users[n][1] : n \in idx..Len(invalid_users)},
          v \in {"US/Central", "America/Chicago", NoRow} :
        /\ txWrites[i] = NoWrite
        /\ committed[i] # v
        /\ committed' = [committed EXCEPT ![i] = v]
    /\ extUsed' = extUsed + 1
    /\ UNCHANGED <<pc, connection, tx, txWrites, legacyOk, invalid_users, idx, fixed_count,
                   failed_count, reports, probes, log, artifact, exitCode, pending,
                   closeCalls, uncaught, issued, dbErr, faultInjected>>

\* ------------------------------------------------------------ specification
Program ==
    \/ Connect
    \/ Probe1
    \/ Probe2
    \/ Scan
    \/ FixUpdate
    \/ FixVerify
    \/ FixAllReturn
    \/ EmitMappingArtifact
    \/ Probe3
    \/ MainSuccess
    \/ MainExcept
    \/ Disconnect

Next == Program \/ ExternalWrite

Spec == Init /\ [][Next]_vars

\* The run under the scheduling the operating system gives a single process:
\* the program keeps taking its next step; other sessions may or may not act.
FairSpec == Spec /\ WF_vars(Program)

\* ------------------------------------------------- idempotence driver
\* A caller that connects and then calls fix_all_timezones MaxCalls times in
\* succession on the same connection, each call starting when the previous
\* one has returned; it stops at the first exception.
DriverCall ==
    /\ \/ pc = "connected"
       \/ pc = "fixall_done" /\ Len(reports) < MaxCalls
    /\ pc' = "fixall"
    /\ UNCHANGED <<connection, tx, committed, txWrites, legacyOk, invalid_users, idx,
                   fixed_count, failed_count, reports, probes, log, artifact, exitCode,
                   pending, closeCalls, uncaught, issued, extUsed, dbErr, faultInjected>>

DriverStop ==
    /\ \/ pc = "except"
       \/ pc = "fixall_done" /\ Len(reports) >= MaxCalls
    /\ pc' = "stopped"
    /\ UNCHANGED <<connection, tx, committed, txWrites, legacyOk, invalid_users, idx,
                   fixed_count, failed_count, reports, probes, log, artifact, exitCode,
                   pending, closeCalls, uncaught, issued, extUsed, dbErr, faultInjected>>

NextTwice ==
    \/ Connect
    \/ DriverCall
    \/ Scan
    \/ FixUpdate
    \/ FixVerify
    \/ FixAllReturn
    \/ DriverStop
    \/ ExternalWrite

SpecTwice == Init /\ [][NextTwice]_vars

\* ------------------------------------------------------------------ claims
Keys == DOMAIN TIMEZONE_MAPPING

Fixed(k) == log[k].result = "Fixed"

NoReport == [fixed |-> 0, failed |-> 0]

\* C1: if the artifact write fails after fix_all_timezones has fixed at least
\* one row, the process exits non-zero and every row it counted as fixed
\* still holds its canonical value in the committed table.
C1_FixesSurviveArtifactFailure ==
    (pc = "exited" /\ uncaught = "artifact" /\ Len(reports) = 1 /\ reports[1].fixed >= 1)
        => /\ exitCode # 0
           /\ \A k \in 1..Len(log) : Fixed(k) => committed[log[k].id] = log[k].new

\* C2: after a run that connected, completed every step and exited 0, every
\* row counted as fixed holds its canonical value in the committed table, which
\* is what a connection opened after the run reads.
C2_FixesPersistAfterRun ==
    (pc = "exited" /\ exitCode = 0 /\ connection = "closed")
        => \A k \in 1..Len(log) : Fixed(k) => committed[log[k].id] = log[k].new

\* C3: with no database error and no other writer, every fix_all_timezones
\* call after the first returns {fixed: 0, failed: 0}.
C3_Idempotent ==
    (~dbErr /\ extUsed = 0)
        => \A n \in 2..Len(reports) : reports[n] = NoReport

C3_Witness ==
    /\ ~dbErr
    /\ extUsed = 0
    /\ Len(reports) = 2
    /\ reports[1].fixed >= 1
    /\ reports[2] = NoReport

\* C4: fix_timezone returns True only if the value read back is the mapped
\* canonical value; a row whose read-back differs (changed or removed by
\* another session) is reported and counted as failed, never as fixed.
C4_FixedOnlyIfVerified ==
    /\ \A k \in 1..Len(log) :
        /\ Fixed(k) => /\ log[k].old \in Keys
                       /\ log[k].new = TIMEZONE_MAPPING[log[k].old]
                       /\ log[k].readback = log[k].new
        /\ (log[k].readback # NoRead /\ log[k].readback # log[k].new)
              => log[k].result = "Failed"
    /\ fixed_count = Cardinality({k \in 1..Len(log) : Fixed(k)})
    /\ failed_count = Cardinality({k \in 1..Len(log) : ~Fixed(k)})

C4_Witness ==
    \E k \in 1..Len(log) :
        /\ log[k].reason = "verify mismatch"
        /\ log[k].readback \notin {NoRead, NoRow}
        /\ log[k].readback # log[k].new
        /\ failed_count >= 1

\* C5: a database error during one row's update or read-back never aborts the
\* batch: fix_all_timezones is not left by an exception of fix_timezone, and
\* its report has fixed + failed equal to the number of rows scanned.
C5_BatchNeverAborted ==
    /\ uncaught # "fix"
    /\ \A n \in 1..Len(reports) :
        (n = Len(reports) /\ pc # "fixall")
            => reports[n].fixed + reports[n].failed = Len(invalid_users)

\* C6: a failed probe is not fatal and does not gate the later steps: when
\* the server rejects the probed legacy name and nothing else goes wrong,
\* neither a probe nor the scan of fix_all_timezones raises.
C6_ProbeFailureDoesNotGate ==
    (~faultInjected /\ Len(probes) >= 1 /\ ~probes[1].ok)
        => uncaught \notin {"probe", "scan"}

\* C7: once connect has succeeded the run reaches its exit, and it exits with
\* connection.close() called exactly once, on every path.
C7_DisconnectOnEveryPath ==
    /\ (connection = "open") ~> (pc = "exited")
    /\ [](closeCalls <= 1)
    /\ []((pc = "exited" /\ connection # "None")
            => (closeCalls = 1 /\ connection = "closed"))

C7_Witness ==
    /\ pc = "exited"
    /\ exitCode = 1
    /\ uncaught = "scan"
    /\ closeCalls = 1
    /\ connection = "closed"

\* C8: the exit status is 1 exactly when connect failed or an exception
\* reached main's except block, and 0 otherwise, whatever the number of failed
\* rows; when connect fails no statement is sent and no artifact is written.
C8_ExitCode ==
    /\ exitCode \in {-1, 0, 1}
    /\ (exitCode = -1) <=> (pc # "exited")
    /\ pc = "exited" =>
        /\ (exitCode = 1) <=> (connection = "None" \/ uncaught # "none")
        /\ connection = "None" => (issued = {} /\ artifact = <<>> /\ log = <<>>)

C8_Witness ==
    /\ pc = "exited"
    /\ exitCode = 0
    /\ Len(reports) = 1
    /\ reports[1].failed >= 1

\* C9: with no database error and no other writer, the scan returns exactly
\* the rows whose timezone is a mapping key; when fix_all_timezones has
\* returned, each of them reads the mapping's value for its old key, every
\* other row reads as before, the report is {fixed: n, failed: 0} for n rows
\* scanned, and an empty scan sends no UPDATE.  (With no other writer,
\* committed is the table as it was before the run.)
C9_FixAllCorrect ==
    (~dbErr /\ extUsed = 0 /\ connection = "open" /\ "scan" \in issued)
        => /\ {invalid_users[n] : n \in 1..Len(invalid_users)}
                = {<<i, committed[i]>> : i \in {j \in Ids : committed[j] \in Keys}}
           /\ Len(invalid_users) = Cardinality({j \in Ids : committed[j] \in Keys})
           /\ Len(reports) = 1 =>
                /\ \A i \in Ids :
                     View(i) = IF committed[i] \in Keys
                               THEN TIMEZONE_MAPPING[committed[i]]
                               ELSE committed[i]
                /\ reports[1] = [fixed |-> Len(invalid_users), failed |-> 0]
                /\ invalid_users = <<>> => "update" \notin issued

C9_Witness ==
    /\ ~dbErr
    /\ extUsed = 0
    /\ connection = "open"
    /\ Len(reports) = 1
    /\ reports[1].fixed >= 1
    /\ \E i \in Ids : committed[i] = "US/Nonexistent"
    /\ \E i \in Ids : committed[i] \in Keys

\* Strings the generated lookup function is applied to: every key and value of
\* both tables, the table's other names and the empty string.
LookupInputs ==
    Keys \cup {TIMEZONE_MAPPING[k] : k \in Keys}
         \cup DOMAIN mapping_content \cup {mapping_content[k] : k \in DOMAIN mapping_content}
         \cup TableNames \cup {"", NoRow}

\* C10: the written artifact's table has the keys and values of
\* TIMEZONE_MAPPING; its lookup function returns, for a key, the value
\* fix_timezone writes, and any other string unchanged.
C10_ArtifactAgreesWithMapping ==
    Len(artifact) = 1 =>
        /\ DOMAIN artifact[1] = Keys
        /\ \A s \in LookupInputs :
             normalize_timezone(artifact[1], s)
                = IF s \in Keys THEN TIMEZONE_MAPPING[s] ELSE s
        /\ \A k \in 1..Len(log) :
             Fixed(k) => normalize_timezone(artifact[1], log[k].old) = log[k].readback

C10_Witness ==
    /\ Len(artifact) = 1
    /\ \E k \in 1..Len(log) : Fixed(k) /\ log[k].old = "Canada/Yukon"
    /\ normalize_timezone(artifact[1], "US/Nonexistent") = "US/Nonexistent"

====
